---------------------------- MODULE Spec2Model ----------------------------
(***************************************************************************)
(* Lifecycle model of src/sdl2/sdl.rs (rust-sdl2): the process-wide Sdl    *)
(* context guard, the reference-counted subsystem handles and the          *)
(* EventPump singleton.                                                    *)
(*                                                                         *)
(* Every handle of the source is an Rc, so a chain of handles lives on the *)
(* thread that called init().  A thread is a sequential program: pc[t] is  *)
(* its position inside the function it is executing.  A step holds at most *)
(* one access to shared memory (the two statics) or one foreign call, so   *)
(* the interleavings of several threads are those of the code.             *)
(***************************************************************************)
EXTENDS Integers, Sequences, FiniteSets

\* ------------------------------------------------------------------ bounds
\* Threads that call into the library.
MaxThreads == 2
\* SubsystemDrop objects that can be tracked at once.
MaxSubs == 2
\* Handles that share one Rc (Sdl values of a chain, handles of a subsystem).
MaxRefs == 2
\* Longest text handed to set_error.
MaxLen == 2

Threads == 1 .. MaxThreads
Slots   == 1 .. MaxSubs

\* The thread of single-threaded use.
MainThread == 1

\* ------------------------------------------------------- program constants
\* The flags the subsystem! macro is instantiated with (lines 210-218).  The
\* nosync arm is expanded five times with nothing but the flag changed
\* (audio, game controller, haptic, joystick, video): video stands for the
\* five.  Timer and events take the sync arm, and events is also the flag
\* of the EventPump.
Flags == { "SDL_INIT_VIDEO", "SDL_INIT_TIMER", "SDL_INIT_EVENTS" }

\* SDL_Init(0): "without any explicit subsystems (flags = 0)"; also the flag
\* of a slot that holds no SubsystemDrop.
NoFlag == "0"

\* A foreign call, as recorded in the trace of the operation that made it.
Call(fn, flag) == [fn |-> fn, flag |-> flag]

\* What an operation returned: the operation and its result.
Ret(op, val) == [op |-> op, val |-> val]

VARIABLES
    IS_SDL_CONTEXT_ALIVE, \* static AtomicBool (line 19)
    IS_EVENT_PUMP_ALIVE,  \* static mut bool (line 220)
    pc,        \* pc[t]: position of thread t inside the function it executes
    ret,       \* ret[t]: the operation t called last and what it returned
    calls,     \* calls[t]: foreign calls made by t's current/last operation
    sdldrop,   \* sdldrop[t]: strong count of the Rc<SdlDrop> t's init() made
    sdl,       \* sdl[t]: Sdl values (the guard and its clones) t holds
    subs,      \* subs[s]: the SubsystemDrop in slot s: its flag, the handles
               \*   that point to it, its Rc strong count, and its history
    pump,      \* pump[t]: EventPump values t holds
    made,      \* made[t]: t's init() has created a chain (history)
    quits,     \* quits[t]: SDL_Quit calls issued for t's latest chain (history)
    sdlUp,     \* successful SDL_Init calls minus SDL_Quit calls
    subUp,     \* subUp[f]: successful SDL_InitSubSystem(f) minus SDL_QuitSubSystem(f)
    errText,   \* errText[t]: the foreign library's error text of thread t
    shim       \* shim[t]: the last two calls of t into the error functions

\* The state of the guards and handles, and the state of the error functions.
lifevars == << IS_SDL_CONTEXT_ALIVE, IS_EVENT_PUMP_ALIVE, pc, ret, calls, sdldrop,
               sdl, subs, pump, made, quits, sdlUp, subUp >>

errvars == << errText, shim >>

vars == << IS_SDL_CONTEXT_ALIVE, IS_EVENT_PUMP_ALIVE, pc, ret, calls, sdldrop,
           sdl, subs, pump, made, quits, sdlUp, subUp, errText, shim >>

\* A call into the error functions: the function, its argument, its result.
ShimOp(op, arg, res) == [op |-> op, arg |-> arg, res |-> res]

NoOp == ShimOp("none", << >>, "none")

\* A slot that holds no SubsystemDrop and never did.
EmptySlot ==
    [owner |-> 0, flag |-> NoFlag, handles |-> 0, refs |-> 0, quits |-> 0]

Init ==
    /\ IS_SDL_CONTEXT_ALIVE = FALSE
    /\ IS_EVENT_PUMP_ALIVE = FALSE
    /\ pc = [t \in Threads |-> "idle"]
    /\ ret = [t \in Threads |-> Ret("none", "none")]
    /\ calls = [t \in Threads |-> << >>]
    /\ sdldrop = [t \in Threads |-> 0]
    /\ sdl = [t \in Threads |-> 0]
    /\ subs = [s \in Slots |-> EmptySlot]
    /\ pump = [t \in Threads |-> 0]
    /\ made = [t \in Threads |-> FALSE]
    /\ quits = [t \in Threads |-> 0]
    /\ sdlUp = 0
    /\ subUp = [f \in Flags |-> 0]
    /\ errText = [t \in Threads |-> << >>]
    /\ shim = [t \in Threads |-> [cur |-> NoOp, prev |-> NoOp]]

\* ------------------------------------------------------------- primitives
\* Mutant of Swap: the previous value is not reported.
Swap_Blind(cur, new) == [stored |-> new, was |-> FALSE]

\* AtomicBool::swap(new): the value stored and the value returned.
Swap(cur, new) == [stored |-> new, was |-> cur]

\* Mutant of RcClone: the clone does not count.
RcClone_NoCount(n) == n

\* Mutant of RcDrop: every drop is taken for the last one.
RcDrop_Last(n) == 0

\* Rc::clone and the drop of one Rc: the strong count after it.
RcClone(n) == n + 1
RcDrop(n) == n - 1

\* ---------------------------------------------------------------- Sdl::new
\* Mutant of SdlNewSwap: the failure path clears the flag, as the failure
\* path of the foreign init does.
SdlNewSwap_ClearOnFail(t) ==
    /\ pc[t] = "idle"
    /\ LET s == Swap(IS_SDL_CONTEXT_ALIVE, TRUE) IN
       IF s.was
       THEN /\ IS_SDL_CONTEXT_ALIVE' = FALSE
            /\ ret' = [ret EXCEPT ![t] = Ret("init", "AlreadyInitialized")]
            /\ pc' = pc
       ELSE /\ IS_SDL_CONTEXT_ALIVE' = s.stored
            /\ ret' = [ret EXCEPT ![t] = Ret("init", "pending")]
            /\ pc' = [pc EXCEPT ![t] = "new_init"]
    /\ calls' = [calls EXCEPT ![t] = << >>]
    /\ UNCHANGED << IS_EVENT_PUMP_ALIVE, sdldrop, sdl, subs, pump, made, quits,
                    sdlUp, subUp >>
    /\ UNCHANGED errvars

\* Lines 45-48: swap the flag to true; if it was true, fail at once.
SdlNewSwap(t) ==
    /\ pc[t] = "idle"
    /\ LET s == Swap(IS_SDL_CONTEXT_ALIVE, TRUE) IN
       /\ IS_SDL_CONTEXT_ALIVE' = s.stored
       /\ IF s.was
          THEN /\ ret' = [ret EXCEPT ![t] = Ret("init", "AlreadyInitialized")]
               /\ pc' = pc
          ELSE /\ ret' = [ret EXCEPT ![t] = Ret("init", "pending")]
               /\ pc' = [pc EXCEPT ![t] = "new_init"]
    /\ calls' = [calls EXCEPT ![t] = << >>]
    /\ UNCHANGED << IS_EVENT_PUMP_ALIVE, sdldrop, sdl, subs, pump, made, quits,
                    sdlUp, subUp >>
    /\ UNCHANGED errvars

\* Lines 51-55: SDL_Init(0); on 0 build Sdl { sdldrop: Rc::new(SdlDrop) }.
SdlNewInit(t) ==
    /\ pc[t] = "new_init"
    /\ calls' = [calls EXCEPT ![t] = Append(@, Call("SDL_Init", NoFlag))]
    /\ \E ok \in BOOLEAN :
         IF ok
         THEN /\ sdlUp' = sdlUp + 1
              /\ sdldrop' = [sdldrop EXCEPT ![t] = 1]
              /\ sdl' = [sdl EXCEPT ![t] = 1]
              /\ made' = [made EXCEPT ![t] = TRUE]
              /\ quits' = [quits EXCEPT ![t] = 0]
              /\ ret' = [ret EXCEPT ![t] = Ret("init", "Ok")]
              /\ pc' = [pc EXCEPT ![t] = "idle"]
         ELSE /\ pc' = [pc EXCEPT ![t] = "new_reset"]
              /\ UNCHANGED << sdlUp, sdldrop, sdl, made, quits, ret >>
    /\ UNCHANGED << IS_SDL_CONTEXT_ALIVE, IS_EVENT_PUMP_ALIVE, subs, pump, subUp >>
    /\ UNCHANGED errvars

\* Mutant of SdlNewReset: the flag is not swapped back.
SdlNewReset_Keep(t) ==
    /\ pc[t] = "new_reset"
    /\ ret' = [ret EXCEPT ![t] = Ret("init", "NativeError")]
    /\ pc' = [pc EXCEPT ![t] = "idle"]
    /\ UNCHANGED << IS_SDL_CONTEXT_ALIVE, IS_EVENT_PUMP_ALIVE, calls, sdldrop, sdl,
                    subs, pump, made, quits, sdlUp, subUp >>
    /\ UNCHANGED errvars

\* Lines 56-57: the foreign init failed: swap the flag back, Err(get_error()).
SdlNewReset(t) ==
    /\ pc[t] = "new_reset"
    /\ IS_SDL_CONTEXT_ALIVE' = Swap(IS_SDL_CONTEXT_ALIVE, FALSE).stored
    /\ ret' = [ret EXCEPT ![t] = Ret("init", "NativeError")]
    /\ pc' = [pc EXCEPT ![t] = "idle"]
    /\ UNCHANGED << IS_EVENT_PUMP_ALIVE, calls, sdldrop, sdl, subs, pump, made,
                    quits, sdlUp, subUp >>
    /\ UNCHANGED errvars

\* ------------------------------------------------- Rc<SdlDrop>, SdlDrop::drop
\* Mutant of SdlDropRelease: SdlDrop::drop leaves the flag alone.
SdlDropRelease_NoSwap(t) ==
    LET n == RcDrop(sdldrop[t]) IN
    /\ sdldrop' = [sdldrop EXCEPT ![t] = n]
    /\ IS_SDL_CONTEXT_ALIVE' = IS_SDL_CONTEXT_ALIVE
    /\ pc' = [pc EXCEPT ![t] = IF n = 0 THEN "sdl_quit" ELSE "idle"]

\* The drop of one Rc<SdlDrop> held by t.  When it was the last one the Rc
\* runs SdlDrop::drop, lines 118-119: swap the flag to false and assert that
\* it was true.  The foreign SDL_Quit of line 121 is the next step.
SdlDropRelease(t) ==
    LET n == RcDrop(sdldrop[t]) IN
    /\ sdldrop' = [sdldrop EXCEPT ![t] = n]
    /\ IF n = 0
       THEN LET s == Swap(IS_SDL_CONTEXT_ALIVE, FALSE) IN
            /\ IS_SDL_CONTEXT_ALIVE' = s.stored
            /\ pc' = [pc EXCEPT ![t] = IF s.was THEN "sdl_quit" ELSE "panicked"]
       ELSE /\ IS_SDL_CONTEXT_ALIVE' = IS_SDL_CONTEXT_ALIVE
            /\ pc' = [pc EXCEPT ![t] = "idle"]

\* Mutant of SdlDropQuit: SdlDrop::drop returns without the foreign call.
SdlDropQuit_NoQuit(t) ==
    /\ pc[t] = "sdl_quit"
    /\ subs' = [s \in Slots |-> IF subs[s].owner = t THEN EmptySlot ELSE subs[s]]
    /\ pc' = [pc EXCEPT ![t] = "idle"]
    /\ UNCHANGED << IS_SDL_CONTEXT_ALIVE, IS_EVENT_PUMP_ALIVE, ret, calls, sdldrop,
                    sdl, pump, made, quits, sdlUp, subUp >>
    /\ UNCHANGED errvars

\* Line 121: unsafe { ll::SDL_Quit(); }  The chain is gone: the slots that kept
\* the history of its SubsystemDrop objects are cleared.
SdlDropQuit(t) ==
    /\ pc[t] = "sdl_quit"
    /\ calls' = [calls EXCEPT ![t] = Append(@, Call("SDL_Quit", NoFlag))]
    /\ sdlUp' = sdlUp - 1
    /\ quits' = [quits EXCEPT ![t] = @ + 1]
    /\ subs' = [s \in Slots |-> IF subs[s].owner = t THEN EmptySlot ELSE subs[s]]
    /\ pc' = [pc EXCEPT ![t] = "idle"]
    /\ UNCHANGED << IS_SDL_CONTEXT_ALIVE, IS_EVENT_PUMP_ALIVE, ret, sdldrop, sdl,
                    pump, made, subUp >>
    /\ UNCHANGED errvars

\* A field of type Rc<SdlDrop> (SubsystemDrop._sdldrop, EventPump._sdldrop) is
\* dropped after the Drop::drop of the value that holds it has run.
SdlDropFieldRelease(t) ==
    /\ pc[t] = "release"
    /\ SdlDropRelease(t)
    /\ UNCHANGED << IS_EVENT_PUMP_ALIVE, ret, calls, sdl, subs, pump, made, quits,
                    sdlUp, subUp >>
    /\ UNCHANGED errvars

\* ---------------------------------------------------------------------- Sdl
\* #[derive(Clone)] on Sdl (lines 33-36): one more Sdl, one more Rc.
SdlClone(t) ==
    /\ pc[t] = "idle"
    /\ sdl[t] >= 1
    /\ sdl[t] < MaxRefs
    /\ sdl' = [sdl EXCEPT ![t] = @ + 1]
    /\ sdldrop' = [sdldrop EXCEPT ![t] = RcClone(@)]
    /\ ret' = [ret EXCEPT ![t] = Ret("clone", "Ok")]
    /\ calls' = [calls EXCEPT ![t] = << >>]
    /\ UNCHANGED << IS_SDL_CONTEXT_ALIVE, IS_EVENT_PUMP_ALIVE, pc, subs, pump,
                    made, quits, sdlUp, subUp >>
    /\ UNCHANGED errvars

\* An Sdl value goes out of scope: its field sdldrop is dropped.
SdlDropValue(t) ==
    /\ pc[t] = "idle"
    /\ sdl[t] >= 1
    /\ sdl' = [sdl EXCEPT ![t] = @ - 1]
    /\ SdlDropRelease(t)
    /\ ret' = [ret EXCEPT ![t] = Ret("drop_sdl", "Ok")]
    /\ calls' = [calls EXCEPT ![t] = << >>]
    /\ UNCHANGED << IS_EVENT_PUMP_ALIVE, subs, pump, made, quits, sdlUp, subUp >>
    /\ UNCHANGED errvars

\* --------------------------------------------------------------- subsystem!
\* A slot SubsystemNew can build into: it holds no SubsystemDrop, or one whose
\* drop has completed.
SlotFree(s) ==
    /\ subs[s].handles = 0
    /\ subs[s].refs = 0
    /\ subs[s].flag = NoFlag \/ subs[s].quits >= 1

\* The slot whose SubsystemDrop t is dropping: no handle left, not yet quit.
SlotDropping(t, s) ==
    /\ subs[s].owner = t
    /\ subs[s].flag # NoFlag
    /\ subs[s].refs = 0
    /\ subs[s].quits = 0

\* Mutant of SubsystemNew: the SubsystemDrop keeps no reference to the chain.
SubsystemNew_NoRetain(t, f) ==
    /\ pc[t] = "idle"
    /\ sdl[t] >= 1
    /\ calls' = [calls EXCEPT ![t] = << Call("SDL_InitSubSystem", f) >>]
    /\ \E ok \in BOOLEAN :
         IF ok
         THEN /\ \E s \in Slots : SlotFree(s)
              /\ LET s == CHOOSE x \in Slots :
                            SlotFree(x) /\ \A y \in Slots : SlotFree(y) => x <= y
                 IN subs' = [subs EXCEPT ![s] =
                               [owner |-> t, flag |-> f, handles |-> 1,
                                refs |-> 1, quits |-> 0]]
              /\ subUp' = [subUp EXCEPT ![f] = @ + 1]
              /\ ret' = [ret EXCEPT ![t] = Ret("subsystem", "Ok")]
         ELSE /\ ret' = [ret EXCEPT ![t] = Ret("subsystem", "NativeError")]
              /\ UNCHANGED << subs, subUp >>
    /\ UNCHANGED << IS_SDL_CONTEXT_ALIVE, IS_EVENT_PUMP_ALIVE, pc, sdl, sdldrop,
                    pump, made, quits, sdlUp >>
    /\ UNCHANGED errvars

\* Lines 134-147, $name::new(sdl) through Sdl::audio() ... Sdl::video()
\* (lines 63-89): SDL_InitSubSystem($flag); on 0 a handle holding
\* Rc::new(SubsystemDrop { _sdldrop: sdl.sdldrop.clone(), flag: $flag }).
SubsystemNew(t, f) ==
    /\ pc[t] = "idle"
    /\ sdl[t] >= 1
    /\ calls' = [calls EXCEPT ![t] = << Call("SDL_InitSubSystem", f) >>]
    /\ \E ok \in BOOLEAN :
         IF ok
         THEN /\ \E s \in Slots : SlotFree(s)
              /\ LET s == CHOOSE x \in Slots :
                            SlotFree(x) /\ \A y \in Slots : SlotFree(y) => x <= y
                 IN subs' = [subs EXCEPT ![s] =
                               [owner |-> t, flag |-> f, handles |-> 1,
                                refs |-> 1, quits |-> 0]]
              /\ subUp' = [subUp EXCEPT ![f] = @ + 1]
              /\ sdldrop' = [sdldrop EXCEPT ![t] = RcClone(@)]
              /\ ret' = [ret EXCEPT ![t] = Ret("subsystem", "Ok")]
         ELSE /\ ret' = [ret EXCEPT ![t] = Ret("subsystem", "NativeError")]
              /\ UNCHANGED << subs, subUp, sdldrop >>
    /\ UNCHANGED << IS_SDL_CONTEXT_ALIVE, IS_EVENT_PUMP_ALIVE, pc, sdl, pump, made,
                    quits, sdlUp >>
    /\ UNCHANGED errvars

\* Clone of a subsystem handle: derived (line 151) or clone(&mut self)
\* (lines 178-182): one more reference to the same SubsystemDrop.
SubsystemClone(t, s) ==
    /\ pc[t] = "idle"
    /\ subs[s].owner = t
    /\ subs[s].handles >= 1
    /\ subs[s].handles < MaxRefs
    /\ subs' = [subs EXCEPT ![s].handles = @ + 1, ![s].refs = RcClone(@)]
    /\ ret' = [ret EXCEPT ![t] = Ret("clone", "Ok")]
    /\ calls' = [calls EXCEPT ![t] = << >>]
    /\ UNCHANGED << IS_SDL_CONTEXT_ALIVE, IS_EVENT_PUMP_ALIVE, pc, sdldrop, sdl,
                    pump, made, quits, sdlUp, subUp >>
    /\ UNCHANGED errvars

\* $name::sdl() (lines 161-163, 186-188):
\* Sdl { sdldrop: self._subsystem_drop._sdldrop.clone() }.
SubsystemSdl(t, s) ==
    /\ pc[t] = "idle"
    /\ subs[s].owner = t
    /\ subs[s].handles >= 1
    /\ sdl[t] < MaxRefs
    /\ sdl' = [sdl EXCEPT ![t] = @ + 1]
    /\ sdldrop' = [sdldrop EXCEPT ![t] = RcClone(@)]
    /\ ret' = [ret EXCEPT ![t] = Ret("sdl", "Ok")]
    /\ calls' = [calls EXCEPT ![t] = << >>]
    /\ UNCHANGED << IS_SDL_CONTEXT_ALIVE, IS_EVENT_PUMP_ALIVE, pc, subs, pump,
                    made, quits, sdlUp, subUp >>
    /\ UNCHANGED errvars

\* A subsystem handle goes out of scope: its Rc<SubsystemDrop> is dropped, and
\* the last one runs SubsystemDrop::drop.
SubsystemDropValue(t, s) ==
    /\ pc[t] = "idle"
    /\ subs[s].owner = t
    /\ subs[s].handles >= 1
    /\ LET n == RcDrop(subs[s].refs) IN
       /\ subs' = [subs EXCEPT ![s].handles = @ - 1, ![s].refs = n]
       /\ pc' = [pc EXCEPT ![t] = IF n = 0 THEN "sub_quit" ELSE "idle"]
    /\ ret' = [ret EXCEPT ![t] = Ret("drop_subsystem", "Ok")]
    /\ calls' = [calls EXCEPT ![t] = << >>]
    /\ UNCHANGED << IS_SDL_CONTEXT_ALIVE, IS_EVENT_PUMP_ALIVE, sdldrop, sdl, pump,
                    made, quits, sdlUp, subUp >>
    /\ UNCHANGED errvars

\* Mutant of SubsystemDropDrop: the events subsystem is quit, whatever the
\* flag of the SubsystemDrop.
SubsystemDropDrop_WrongFlag(t) ==
    /\ pc[t] = "sub_quit"
    /\ \E s \in Slots :
         /\ SlotDropping(t, s)
         /\ calls' = [calls EXCEPT ![t] =
                        Append(@, Call("SDL_QuitSubSystem", "SDL_INIT_EVENTS"))]
         /\ subUp' = [subUp EXCEPT !["SDL_INIT_EVENTS"] = @ - 1]
         /\ subs' = [subs EXCEPT ![s].quits = @ + 1]
    /\ pc' = [pc EXCEPT ![t] = "release"]
    /\ UNCHANGED << IS_SDL_CONTEXT_ALIVE, IS_EVENT_PUMP_ALIVE, ret, sdldrop, sdl,
                    pump, made, quits, sdlUp >>
    /\ UNCHANGED errvars

\* SubsystemDrop::drop, line 206: SDL_QuitSubSystem(self.flag); the field
\* _sdldrop is dropped next.
SubsystemDropDrop(t) ==
    /\ pc[t] = "sub_quit"
    /\ \E s \in Slots :
         /\ SlotDropping(t, s)
         /\ calls' = [calls EXCEPT ![t] =
                        Append(@, Call("SDL_QuitSubSystem", subs[s].flag))]
         /\ subUp' = [subUp EXCEPT ![subs[s].flag] = @ - 1]
         /\ subs' = [subs EXCEPT ![s].quits = @ + 1]
    /\ pc' = [pc EXCEPT ![t] = "release"]
    /\ UNCHANGED << IS_SDL_CONTEXT_ALIVE, IS_EVENT_PUMP_ALIVE, ret, sdldrop, sdl,
                    pump, made, quits, sdlUp >>
    /\ UNCHANGED errvars

\* ---------------------------------------------------------------- EventPump
\* Lines 234-235, through Sdl::event_pump (lines 97-99): read the flag; if it
\* is set, fail at once.
EventPumpNewCheck(t) ==
    /\ pc[t] = "idle"
    /\ sdl[t] >= 1
    /\ pump[t] < MaxRefs
    /\ calls' = [calls EXCEPT ![t] = << >>]
    /\ IF IS_EVENT_PUMP_ALIVE
       THEN /\ ret' = [ret EXCEPT ![t] = Ret("event_pump", "AlreadyActive")]
            /\ pc' = pc
       ELSE /\ ret' = [ret EXCEPT ![t] = Ret("event_pump", "pending")]
            /\ pc' = [pc EXCEPT ![t] = "pump_init"]
    /\ UNCHANGED << IS_SDL_CONTEXT_ALIVE, IS_EVENT_PUMP_ALIVE, sdldrop, sdl, subs,
                    pump, made, quits, sdlUp, subUp >>
    /\ UNCHANGED errvars

\* Mutant of EventPumpNewInit: the flag is raised before the result of the
\* foreign call is looked at, and the failure path leaves it raised.
EventPumpNewInit_FlagOnFail(t) ==
    /\ pc[t] = "pump_init"
    /\ calls' = [calls EXCEPT ![t] =
                   Append(@, Call("SDL_InitSubSystem", "SDL_INIT_EVENTS"))]
    /\ \E ok \in BOOLEAN :
         IF ok
         THEN /\ subUp' = [subUp EXCEPT !["SDL_INIT_EVENTS"] = @ + 1]
              /\ pc' = [pc EXCEPT ![t] = "pump_set"]
              /\ ret' = ret
              /\ IS_EVENT_PUMP_ALIVE' = IS_EVENT_PUMP_ALIVE
         ELSE /\ ret' = [ret EXCEPT ![t] = Ret("event_pump", "NativeError")]
              /\ pc' = [pc EXCEPT ![t] = "idle"]
              /\ subUp' = subUp
              /\ IS_EVENT_PUMP_ALIVE' = TRUE
    /\ UNCHANGED << IS_SDL_CONTEXT_ALIVE, sdldrop, sdl, subs, pump, made, quits,
                    sdlUp >>
    /\ UNCHANGED errvars

\* Lines 238-240, 247: SDL_InitSubSystem(SDL_INIT_EVENTS).
EventPumpNewInit(t) ==
    /\ pc[t] = "pump_init"
    /\ calls' = [calls EXCEPT ![t] =
                   Append(@, Call("SDL_InitSubSystem", "SDL_INIT_EVENTS"))]
    /\ \E ok \in BOOLEAN :
         IF ok
         THEN /\ subUp' = [subUp EXCEPT !["SDL_INIT_EVENTS"] = @ + 1]
              /\ pc' = [pc EXCEPT ![t] = "pump_set"]
              /\ ret' = ret
         ELSE /\ ret' = [ret EXCEPT ![t] = Ret("event_pump", "NativeError")]
              /\ pc' = [pc EXCEPT ![t] = "idle"]
              /\ subUp' = subUp
    /\ UNCHANGED << IS_SDL_CONTEXT_ALIVE, IS_EVENT_PUMP_ALIVE, sdldrop, sdl, subs,
                    pump, made, quits, sdlUp >>
    /\ UNCHANGED errvars

\* Mutant of EventPumpNewSet: the flag is not set.
EventPumpNewSet_NoFlag(t) ==
    /\ pc[t] = "pump_set"
    /\ pump' = [pump EXCEPT ![t] = @ + 1]
    /\ sdldrop' = [sdldrop EXCEPT ![t] = RcClone(@)]
    /\ ret' = [ret EXCEPT ![t] = Ret("event_pump", "Ok")]
    /\ pc' = [pc EXCEPT ![t] = "idle"]
    /\ UNCHANGED << IS_SDL_CONTEXT_ALIVE, IS_EVENT_PUMP_ALIVE, calls, sdl, subs,
                    made, quits, sdlUp, subUp >>
    /\ UNCHANGED errvars

\* Lines 241-245: set the flag, Ok(EventPump { _sdldrop: sdl.sdldrop.clone() }).
EventPumpNewSet(t) ==
    /\ pc[t] = "pump_set"
    /\ IS_EVENT_PUMP_ALIVE' = TRUE
    /\ pump' = [pump EXCEPT ![t] = @ + 1]
    /\ sdldrop' = [sdldrop EXCEPT ![t] = RcClone(@)]
    /\ ret' = [ret EXCEPT ![t] = Ret("event_pump", "Ok")]
    /\ pc' = [pc EXCEPT ![t] = "idle"]
    /\ UNCHANGED << IS_SDL_CONTEXT_ALIVE, calls, sdl, subs, made, quits, sdlUp,
                    subUp >>
    /\ UNCHANGED errvars

\* EventPump::drop, line 260: the EventPump goes out of scope;
\* assert!(IS_EVENT_PUMP_ALIVE).
EventPumpDropAssert(t) ==
    /\ pc[t] = "idle"
    /\ pump[t] >= 1
    /\ pump' = [pump EXCEPT ![t] = @ - 1]
    /\ pc' = [pc EXCEPT ![t] =
                IF IS_EVENT_PUMP_ALIVE THEN "pumpdrop_quit" ELSE "panicked"]
    /\ ret' = [ret EXCEPT ![t] = Ret("drop_event_pump", "Ok")]
    /\ calls' = [calls EXCEPT ![t] = << >>]
    /\ UNCHANGED << IS_SDL_CONTEXT_ALIVE, IS_EVENT_PUMP_ALIVE, sdldrop, sdl, subs,
                    made, quits, sdlUp, subUp >>
    /\ UNCHANGED errvars

\* Mutant of EventPumpDropQuit: the foreign call is left out.
EventPumpDropQuit_NoQuit(t) ==
    /\ pc[t] = "pumpdrop_quit"
    /\ pc' = [pc EXCEPT ![t] = "pumpdrop_clear"]
    /\ UNCHANGED << IS_SDL_CONTEXT_ALIVE, IS_EVENT_PUMP_ALIVE, ret, calls, sdldrop,
                    sdl, subs, pump, made, quits, sdlUp, subUp >>
    /\ UNCHANGED errvars

\* Line 261: SDL_QuitSubSystem(SDL_INIT_EVENTS).
EventPumpDropQuit(t) ==
    /\ pc[t] = "pumpdrop_quit"
    /\ calls' = [calls EXCEPT ![t] =
                   Append(@, Call("SDL_QuitSubSystem", "SDL_INIT_EVENTS"))]
    /\ subUp' = [subUp EXCEPT !["SDL_INIT_EVENTS"] = @ - 1]
    /\ pc' = [pc EXCEPT ![t] = "pumpdrop_clear"]
    /\ UNCHANGED << IS_SDL_CONTEXT_ALIVE, IS_EVENT_PUMP_ALIVE, ret, sdldrop, sdl,
                    subs, pump, made, quits, sdlUp >>
    /\ UNCHANGED errvars

\* Mutant of EventPumpDropClear: the flag is left set.
EventPumpDropClear_Keep(t) ==
    /\ pc[t] = "pumpdrop_clear"
    /\ pc' = [pc EXCEPT ![t] = "release"]
    /\ UNCHANGED << IS_SDL_CONTEXT_ALIVE, IS_EVENT_PUMP_ALIVE, ret, calls, sdldrop,
                    sdl, subs, pump, made, quits, sdlUp, subUp >>
    /\ UNCHANGED errvars

\* Line 262: IS_EVENT_PUMP_ALIVE = false; the field _sdldrop is dropped next.
EventPumpDropClear(t) ==
    /\ pc[t] = "pumpdrop_clear"
    /\ IS_EVENT_PUMP_ALIVE' = FALSE
    /\ pc' = [pc EXCEPT ![t] = "release"]
    /\ UNCHANGED << IS_SDL_CONTEXT_ALIVE, ret, calls, sdldrop, sdl, subs, pump,
                    made, quits, sdlUp, subUp >>
    /\ UNCHANGED errvars

\* ---------------------------------------------------------- error functions
\* The bytes of a text.  NUL is the byte 0; "%" opens a conversion in a format
\* string of the foreign library; "a" stands for every other byte.
NUL == "NUL"
Symbols == { "a", "%" }

\* The texts a caller can hand to set_error (a &str may hold the byte 0), and
\* the texts without the byte 0.
Texts == UNION { [1 .. n -> Symbols \cup { NUL }] : n \in 0 .. MaxLen }
CTexts == UNION { [1 .. n -> Symbols] : n \in 0 .. MaxLen }

\* enum Error (lines 7-14) and the text SDL_Error stores for each code, kept
\* as one symbol.
Error == { "NoMemError", "ReadError", "WriteError", "SeekError",
           "UnsupportedError" }
SDL_Error(e) == << e >>

\* The text the foreign library leaves behind when one of its calls fails.
FailureText == << "failure" >>

\* CString::new(err), line 292: an error if err holds the byte 0, otherwise
\* the bytes of err followed by the terminating 0.
CStringNew(text) ==
    IF \E i \in 1 .. Len(text) : text[i] = NUL
    THEN [ok |-> FALSE, bytes |-> << >>]
    ELSE [ok |-> TRUE, bytes |-> Append(text, NUL)]

\* The C string behind a pointer (as_ptr() at line 294, CStr::from_ptr at line
\* 287): the bytes before the first 0.
FromPtr(buf) ==
    LET n == CHOOSE i \in 1 .. Len(buf) :
                 buf[i] = NUL /\ \A j \in 1 .. (i - 1) : buf[j] # NUL
    IN SubSeq(buf, 1, n - 1)

\* What a conversion of a format string expands to when the call passed no
\* argument for it: any text.
Unspecified == CTexts

\* SDL_SetError(fmt, ...) called with the format alone, as line 294 calls it:
\* the texts it can store.  "%%" stands for one "%"; any other "%" opens a
\* conversion whose argument was not passed.
RECURSIVE Format(_)
Format(fmt) ==
    IF fmt = << >>
    THEN { << >> }
    ELSE IF Head(fmt) # "%"
    THEN { << Head(fmt) >> \o r : r \in Format(Tail(fmt)) }
    ELSE IF Len(fmt) >= 2 /\ fmt[2] = "%"
    THEN { << "%" >> \o r : r \in Format(SubSeq(fmt, 3, Len(fmt))) }
    ELSE Unspecified

\* The buffer SDL_GetError() points to: the stored text and its terminator.
SDL_GetError(t) == Append(errText[t], NUL)

\* t's call is recorded as its latest one.
Called(t, op) == shim' = [shim EXCEPT ![t] = [cur |-> op, prev |-> shim[t].cur]]

\* set_error, lines 291-296: try!(CString::new(err)), then
\* SDL_SetError(c_string.as_ptr()), then Ok(()).
SetError(t, text) ==
    /\ pc[t] = "idle"
    /\ LET c == CStringNew(text) IN
       IF c.ok
       THEN \E out \in Format(FromPtr(c.bytes)) :
              /\ errText' = [errText EXCEPT ![t] = out]
              /\ Called(t, ShimOp("set_error", text, "Ok"))
       ELSE /\ errText' = errText
            /\ Called(t, ShimOp("set_error", text, "NulError"))
    /\ UNCHANGED lifevars

\* get_error, lines 284-289:
\* CStr::from_ptr(SDL_GetError()).to_str().unwrap().to_owned().
GetError(t) ==
    /\ pc[t] = "idle"
    /\ Called(t, ShimOp("get_error", << >>, FromPtr(SDL_GetError(t))))
    /\ errText' = errText
    /\ UNCHANGED lifevars

\* set_error_from_code, lines 298-300: SDL_Error(err as SDL_errorcode).
SetErrorFromCode(t, e) ==
    /\ pc[t] = "idle"
    /\ errText' = [errText EXCEPT ![t] = SDL_Error(e)]
    /\ Called(t, ShimOp("set_error_from_code", << e >>, "Ok"))
    /\ UNCHANGED lifevars

\* Mutant of ClearError: the call does nothing.
ClearError_Keep(t) ==
    /\ pc[t] = "idle"
    /\ errText' = errText
    /\ Called(t, ShimOp("clear_error", << >>, "Ok"))
    /\ UNCHANGED lifevars

\* clear_error, lines 302-304: SDL_ClearError().
ClearError(t) ==
    /\ pc[t] = "idle"
    /\ errText' = [errText EXCEPT ![t] = << >>]
    /\ Called(t, ShimOp("clear_error", << >>, "Ok"))
    /\ UNCHANGED lifevars

\* A foreign call fails (SDL_Init at line 51, SDL_InitSubSystem at lines 135
\* and 238) and the library stores the text that Err(get_error()) at lines 57,
\* 145 and 247 reads.
ForeignFailure(t) ==
    /\ pc[t] = "idle"
    /\ errText' = [errText EXCEPT ![t] = FailureText]
    /\ Called(t, ShimOp("foreign", << >>, "Err"))
    /\ UNCHANGED lifevars

\* ------------------------------------------------------------ specifications
\* One step of thread t in an operation that reads or writes one of the two
\* statics, or that only counts references to the chain.
StaticsStep(t) ==
    \/ SdlNewSwap(t)
    \/ SdlNewInit(t)
    \/ SdlNewReset(t)
    \/ SdlClone(t)
    \/ SdlDropValue(t)
    \/ SdlDropQuit(t)
    \/ SdlDropFieldRelease(t)
    \/ EventPumpNewCheck(t)
    \/ EventPumpNewInit(t)
    \/ EventPumpNewSet(t)
    \/ EventPumpDropAssert(t)
    \/ EventPumpDropQuit(t)
    \/ EventPumpDropClear(t)

\* One step of thread t in an operation on a subsystem handle.
SubsystemStep(t) ==
    \/ \E f \in Flags : SubsystemNew(t, f)
    \/ \E s \in Slots : SubsystemClone(t, s)
    \/ \E s \in Slots : SubsystemSdl(t, s)
    \/ \E s \in Slots : SubsystemDropValue(t, s)
    \/ SubsystemDropDrop(t)

\* Single-threaded use: every call is made by the main thread.
Next == StaticsStep(MainThread) \/ SubsystemStep(MainThread)

Spec == Init /\ [][Next]_vars

\* Any thread may call init(); the handles stay with the thread that made
\* them.  The subsystem handles touch neither static, so the threads race
\* with the operations that do.
NextMT == \E t \in Threads : StaticsStep(t)

SpecMT == Init /\ [][NextMT]_vars

\* The premise of a concurrent event_pump(): every thread holds a reference to
\* a live Sdl, and the threads are inside EventPump::new and EventPump::drop
\* at the same time.  (An Sdl is an Rc and does not cross threads in safe
\* code; this specification drops that confinement and keeps the code of
\* EventPump.)
InitRace ==
    /\ IS_SDL_CONTEXT_ALIVE = TRUE
    /\ IS_EVENT_PUMP_ALIVE = FALSE
    /\ pc = [t \in Threads |-> "idle"]
    /\ ret = [t \in Threads |-> Ret("init", "Ok")]
    /\ calls = [t \in Threads |-> << Call("SDL_Init", NoFlag) >>]
    /\ sdldrop = [t \in Threads |-> 1]
    /\ sdl = [t \in Threads |-> 1]
    /\ subs = [s \in Slots |-> EmptySlot]
    /\ pump = [t \in Threads |-> 0]
    /\ made = [t \in Threads |-> TRUE]
    /\ quits = [t \in Threads |-> 0]
    /\ sdlUp = 1
    /\ subUp = [f \in Flags |-> 0]
    /\ errText = [t \in Threads |-> << >>]
    /\ shim = [t \in Threads |-> [cur |-> NoOp, prev |-> NoOp]]

NextRace ==
    \E t \in Threads :
        \/ EventPumpNewCheck(t)
        \/ EventPumpNewInit(t)
        \/ EventPumpNewSet(t)
        \/ EventPumpDropAssert(t)
        \/ EventPumpDropQuit(t)
        \/ EventPumpDropClear(t)
        \/ SdlDropFieldRelease(t)

SpecRace == InitRace /\ [][NextRace]_vars

\* The error functions, called by one thread in any order and with any text.
ShimStep(t) ==
    \/ \E text \in Texts : SetError(t, text)
    \/ GetError(t)
    \/ \E e \in Error : SetErrorFromCode(t, e)
    \/ ClearError(t)
    \/ ForeignFailure(t)

NextErr == ShimStep(MainThread)

SpecErr == Init /\ [][NextErr]_vars

\* ------------------------------------------------------------ observations
\* Handles of t that hold a reference to t's chain: its Sdl values, its
\* SubsystemDrop objects that a handle points to, its EventPump.
SubsystemsOf(t) == { s \in Slots : subs[s].owner = t /\ subs[s].handles >= 1 }

LiveRefs(t) == sdl[t] + Cardinality(SubsystemsOf(t)) + pump[t]

\* The step is t's call of init(): t was idle and its operation is now init().
InitCall(t) ==
    /\ pc[t] = "idle"
    /\ ret'[t].op = "init"
    /\ ret'[t] # ret[t] \/ calls'[t] # calls[t] \/ pc'[t] # pc[t]

\* The step is t's call of event_pump().
PumpCall(t) ==
    /\ pc[t] = "idle"
    /\ ret'[t].op = "event_pump"
    /\ ret'[t] # ret[t] \/ calls'[t] # calls[t] \/ pc'[t] # pc[t]

\* No assertion of the source fails in sequential use or in the init() race.
NoPanic == \A t \in Threads : pc[t] # "panicked"

\* ------------------------------------------------------------------- claims
\* C1: at most one ContextGuard chain is live at any time; an init() called
\* while a chain is live returns AlreadyInitialized, makes no foreign call,
\* leaves IS_SDL_CONTEXT_ALIVE true and leaves the existing chain untouched.
C1_OneChain ==
    /\ [](Cardinality({ t \in Threads : sdldrop[t] > 0 \/ LiveRefs(t) > 0 }) <= 1)
    /\ [][ \A t \in Threads :
             (InitCall(t) /\ \E u \in Threads : LiveRefs(u) > 0)
             => /\ ret'[t] = Ret("init", "AlreadyInitialized")
                /\ pc'[t] = "idle"
                /\ calls'[t] = << >>
                /\ IS_SDL_CONTEXT_ALIVE'
                /\ UNCHANGED << sdldrop, sdl, subs, pump, made, quits, sdlUp,
                                subUp >> ]_vars

\* A thread was refused while another thread holds a guard and its clone.
C1_Witness ==
    \E t, u \in Threads :
        /\ t # u
        /\ pc[t] = "idle"
        /\ ret[t] = Ret("init", "AlreadyInitialized")
        /\ calls[t] = << >>
        /\ sdl[u] = 2
        /\ sdldrop[u] = 2
        /\ IS_SDL_CONTEXT_ALIVE

\* C2: for each successful init(), SDL_Quit is issued exactly once, when the
\* last reference to the chain (Sdl values, subsystem handles, event pump) is
\* released; while a reference remains, no SDL_Quit was issued for the chain.
C2_QuitOncePerInit ==
    \A t \in Threads :
        made[t] =>
            /\ LiveRefs(t) > 0 => quits[t] = 0
            /\ pc[t] = "sdl_quit" => quits[t] = 0
            /\ (pc[t] = "idle" /\ LiveRefs(t) = 0) => quits[t] = 1

\* The chain ended with the release of a subsystem handle that outlived the
\* guard: the handle's drop issued the one SDL_Quit.
C2_Witness ==
    /\ made[MainThread]
    /\ pc[MainThread] = "idle"
    /\ LiveRefs(MainThread) = 0
    /\ quits[MainThread] = 1
    /\ ret[MainThread].op = "drop_subsystem"
    /\ Len(calls[MainThread]) = 2
    /\ calls[MainThread][2] = Call("SDL_Quit", NoFlag)

\* C3: event_pump() called while an EventPump is alive returns AlreadyActive
\* and makes no foreign call; when no EventPump is alive (initially or after
\* the release of the last one) a call on a live Sdl goes on to
\* SDL_InitSubSystem and, if that returns 0, returns the EventPump.
C3_PumpRefusedThenGranted ==
    [][ \A t \in Threads :
          /\ (PumpCall(t) /\ \E u \in Threads : pump[u] >= 1)
             => /\ ret'[t] = Ret("event_pump", "AlreadyActive")
                /\ pc'[t] = "idle"
                /\ calls'[t] = << >>
                /\ UNCHANGED << subUp, pump, sdldrop, IS_EVENT_PUMP_ALIVE >>
          /\ (PumpCall(t) /\ \A u \in Threads : pump[u] = 0)
             => pc'[t] = "pump_init"
          /\ pc[t] = "pump_init"
             => /\ calls'[t] = << Call("SDL_InitSubSystem", "SDL_INIT_EVENTS") >>
                /\ subUp'["SDL_INIT_EVENTS"] = subUp["SDL_INIT_EVENTS"] + 1
                   => pc'[t] = "pump_set"
          /\ pc[t] = "pump_set"
             => /\ pc'[t] = "idle"
                /\ ret'[t] = Ret("event_pump", "Ok")
                /\ pump'[t] = 1 ]_vars

\* The second call was refused while the first EventPump is held.
C3_Witness ==
    /\ pump[MainThread] = 1
    /\ pc[MainThread] = "idle"
    /\ ret[MainThread] = Ret("event_pump", "AlreadyActive")
    /\ calls[MainThread] = << >>

\* C4: a SubsystemDrop made by one successful constructor call and shared by
\* N+1 handles gets exactly one SDL_QuitSubSystem for its flag: none while a
\* handle remains, one when the last handle has been released.
C4_SubsystemQuitOnce ==
    /\ [](\A s \in Slots :
            subs[s].flag # NoFlag =>
                /\ subs[s].handles >= 1 => subs[s].quits = 0
                /\ (subs[s].handles = 0 /\ pc[subs[s].owner] # "sub_quit")
                   => subs[s].quits = 1)
    /\ [][ \A s \in Slots :
             (subs[s].flag # NoFlag /\ subs'[s].quits = subs[s].quits + 1)
             => /\ subs'[s].flag = subs[s].flag
                /\ subUp'[subs[s].flag] = subUp[subs[s].flag] - 1
                /\ calls'[subs[s].owner] =
                       << Call("SDL_QuitSubSystem", subs[s].flag) >> ]_vars

\* One of two handles of a SubsystemDrop has been released and the drop has
\* returned without a foreign call; a SubsystemDrop made before it has been
\* quit once.
C4_Witness ==
    \E s, d \in Slots :
        /\ subs[s].flag # NoFlag
        /\ subs[s].handles = 1
        /\ subs[s].refs = 1
        /\ subs[s].quits = 0
        /\ pc[subs[s].owner] = "idle"
        /\ ret[subs[s].owner] = Ret("drop_subsystem", "Ok")
        /\ calls[subs[s].owner] = << >>
        /\ subs[d].flag = subs[s].flag
        /\ subs[d].handles = 0
        /\ subs[d].quits = 1

\* Every thread has called init() and the call has returned; a thread that
\* holds a guard has made no call since the one that returned it.
RaceDone ==
    \A t \in Threads :
        /\ pc[t] = "idle"
        /\ ret[t].op = "init"
        /\ LiveRefs(t) > 0 => ret[t].val = "Ok"

\* C5 as stated: when the threads have raced init(), exactly one call
\* returned a guard and every other call returned AlreadyInitialized.
C5_ExactlyOneWinner ==
    RaceDone =>
        \E w \in Threads :
            /\ ret[w].val = "Ok"
            /\ \A t \in Threads \ {w} : ret[t].val = "AlreadyInitialized"

\* C5 as amended: when the threads have raced init(), at most one call
\* returned a guard; a call returns NativeError only after its own foreign
\* init call; and if no call returned NativeError, exactly one call returned
\* a guard and every other call returned AlreadyInitialized.
C5_AtMostOneWinner ==
    RaceDone =>
        /\ Cardinality({ t \in Threads : ret[t].val = "Ok" }) <= 1
        /\ \A t \in Threads :
               /\ ret[t].val \in { "Ok", "AlreadyInitialized", "NativeError" }
               /\ ret[t].val = "NativeError"
                  => calls[t] = << Call("SDL_Init", NoFlag) >>
               /\ ret[t].val = "AlreadyInitialized" => calls[t] = << >>
        /\ (\A t \in Threads : ret[t].val # "NativeError")
           => \E w \in Threads :
                  /\ ret[w].val = "Ok"
                  /\ \A t \in Threads \ {w} : ret[t].val = "AlreadyInitialized"

\* The race is over: one thread holds the guard, a second one was refused.
C5_Witness ==
    /\ RaceDone
    /\ \E w, t \in Threads :
           /\ w # t
           /\ ret[w].val = "Ok"
           /\ sdl[w] = 1
           /\ ret[t].val = "AlreadyInitialized"

\* C6: SDL_Quit is not issued, and the library stays initialised, while a
\* subsystem handle or the EventPump of the chain is alive, whatever the
\* order in which the guard, its clones and the handles are released.
C6_NoQuitWhileDerivedAlive ==
    \A t \in Threads :
        (SubsystemsOf(t) # {} \/ pump[t] >= 1)
        => /\ quits[t] = 0
           /\ pc[t] # "sdl_quit"
           /\ sdlUp = 1
           /\ IS_SDL_CONTEXT_ALIVE

\* Every Sdl value is gone, the last by a drop; a subsystem handle and the
\* EventPump are alive and the library has not been quit.
C6_Witness ==
    /\ sdl[MainThread] = 0
    /\ pc[MainThread] = "idle"
    /\ ret[MainThread].op = "drop_sdl"
    /\ SubsystemsOf(MainThread) # {}
    /\ pump[MainThread] = 1
    /\ quits[MainThread] = 0
    /\ sdlUp = 1

\* C7: when init() has won the swap and SDL_Init fails, init() returns
\* NativeError, builds no Sdl, calls no SDL_Quit and leaves
\* IS_SDL_CONTEXT_ALIVE false, and the next init() is not refused.
C7_FailedInitResets ==
    /\ [](\A t \in Threads :
            (pc[t] = "idle" /\ ret[t] = Ret("init", "NativeError"))
            => /\ calls[t] = << Call("SDL_Init", NoFlag) >>
               /\ ~IS_SDL_CONTEXT_ALIVE
               /\ sdldrop[t] = 0
               /\ LiveRefs(t) = 0)
    /\ [][ \A t \in Threads :
             /\ pc[t] = "new_reset"
                => /\ ~IS_SDL_CONTEXT_ALIVE'
                   /\ ret'[t] = Ret("init", "NativeError")
                   /\ pc'[t] = "idle"
                   /\ UNCHANGED << sdldrop, sdl, quits, sdlUp >>
             /\ (InitCall(t) /\ ret[t] = Ret("init", "NativeError"))
                => pc'[t] = "new_init" ]_vars

\* init() has failed in the foreign call and has returned.
C7_Witness ==
    /\ pc[MainThread] = "idle"
    /\ ret[MainThread] = Ret("init", "NativeError")
    /\ ~IS_SDL_CONTEXT_ALIVE
    /\ sdlUp = 0

C9_PumpFlagMatchesHandle ==
    /\ pump[MainThread] \in { 0, 1 }
    /\ pc[MainThread] \notin { "pumpdrop_quit", "pumpdrop_clear" }
       => (IS_EVENT_PUMP_ALIVE <=> pump[MainThread] = 1)
    /\ (pc[MainThread] = "idle" /\ ret[MainThread].op = "event_pump"
        /\ ret[MainThread].val = "NativeError")
       => ~IS_EVENT_PUMP_ALIVE
    /\ (pc[MainThread] = "idle" /\ ret[MainThread].op = "drop_event_pump")
       => ~IS_EVENT_PUMP_ALIVE

\* The EventPump has been released and its drop has returned; the chain is
\* still held.
C9_Witness ==
    /\ pc[MainThread] = "idle"
    /\ ret[MainThread].op = "drop_event_pump"
    /\ pump[MainThread] = 0
    /\ ~IS_EVENT_PUMP_ALIVE
    /\ sdl[MainThread] >= 1

\* No thread is inside init() or inside a teardown.
Quiescent == \A t \in Threads : pc[t] = "idle"

\* C10: when no init() and no teardown is running, IS_SDL_CONTEXT_ALIVE is
\* true exactly when the chain has a live reference; a chain comes alive only
\* by an init() that returns Ok, and the flag goes from true to false only in
\* the drop of the last reference (or in the reset of a failed init()).
C10_FlagMatchesChain ==
    /\ [](Quiescent =>
            (IS_SDL_CONTEXT_ALIVE <=> \E t \in Threads : LiveRefs(t) > 0))
    /\ [][ /\ \A t \in Threads :
                (LiveRefs(t) = 0 /\ LiveRefs(t)' > 0)
                => /\ pc[t] = "new_init"
                   /\ ret'[t] = Ret("init", "Ok")
                   /\ IS_SDL_CONTEXT_ALIVE'
           /\ (IS_SDL_CONTEXT_ALIVE /\ ~IS_SDL_CONTEXT_ALIVE')
              => \E t \in Threads :
                     \/ pc[t] = "new_reset"
                     \/ /\ sdldrop[t] = 1
                        /\ sdldrop'[t] = 0
                        /\ LiveRefs(t)' = 0 ]_vars

\* A second chain is alive on another thread after the first one was torn
\* down, and nothing is running.
C10_Witness ==
    /\ Quiescent
    /\ IS_SDL_CONTEXT_ALIVE
    /\ \E t, u \in Threads :
           /\ t # u
           /\ LiveRefs(t) > 0
           /\ pump[t] = 1
           /\ made[u]
           /\ quits[u] = 1

\* C11: when the foreign SDL_InitSubSystem returns nonzero inside a subsystem
\* constructor or inside event_pump(), the operation returns NativeError after
\* that one foreign call and nothing else has changed: no handle and no
\* EventPump is created, the strong count of the chain is what it was,
\* IS_EVENT_PUMP_ALIVE is false after a failed event_pump(), and the balance
\* of subsystem inits is untouched, so that no SDL_QuitSubSystem is owed for
\* the failed activation.
C11_FailedSubsystemInit ==
    /\ [](\A t \in Threads :
            /\ pc[t] = "idle" /\ ret[t] = Ret("subsystem", "NativeError")
                 => /\ Len(calls[t]) = 1
                    /\ calls[t][1].fn = "SDL_InitSubSystem"
            /\ pc[t] = "idle" /\ ret[t] = Ret("event_pump", "NativeError")
                 => /\ calls[t] = << Call("SDL_InitSubSystem", "SDL_INIT_EVENTS") >>
                    /\ ~IS_EVENT_PUMP_ALIVE
                    /\ pump[t] = 0)
    /\ [][\A t \in Threads :
            \/ pc[t] = "idle" /\ ret'[t] = Ret("subsystem", "NativeError")
            \/ pc[t] = "pump_init" /\ ret'[t] = Ret("event_pump", "NativeError")
            => /\ pc'[t] = "idle"
               /\ UNCHANGED << IS_SDL_CONTEXT_ALIVE, IS_EVENT_PUMP_ALIVE, sdldrop,
                               sdl, subs, pump, made, quits, sdlUp, subUp >>]_vars

\* event_pump() has failed in the foreign call: the thread holds its guard and
\* nothing else, and the chain has the one reference it had.
C11_Witness ==
    /\ pc[MainThread] = "idle"
    /\ ret[MainThread] = Ret("event_pump", "NativeError")
    /\ calls[MainThread] = << Call("SDL_InitSubSystem", "SDL_INIT_EVENTS") >>
    /\ sdl[MainThread] = 1
    /\ sdldrop[MainThread] = 1
    /\ \A s \in Slots : subs[s] = EmptySlot

\* C12: the drop of an EventPump makes exactly one foreign call of its own,
\* SDL_QuitSubSystem(SDL_INIT_EVENTS), the counterpart of the one
\* SDL_InitSubSystem(SDL_INIT_EVENTS) of its creation; IS_EVENT_PUMP_ALIVE is
\* still set when that call is made and is cleared after it; the reference to
\* the chain is still held when the flag is cleared and is released last, so
\* that an SDL_Quit, if this was the last reference, comes after the quit of
\* the events subsystem.
C12_PumpDropOrder ==
    LET InitEv == Call("SDL_InitSubSystem", "SDL_INIT_EVENTS")
        QuitEv == Call("SDL_QuitSubSystem", "SDL_INIT_EVENTS")
        Quit   == Call("SDL_Quit", NoFlag)
    IN \A t \in Threads :
        /\ pc[t] = "idle" /\ ret[t] = Ret("event_pump", "Ok")
             => calls[t] = << InitEv >>
        /\ pc[t] = "pumpdrop_quit"
             => calls[t] = << >> /\ IS_EVENT_PUMP_ALIVE /\ sdldrop[t] >= 1
        /\ pc[t] = "pumpdrop_clear"
             => calls[t] = << QuitEv >> /\ IS_EVENT_PUMP_ALIVE /\ sdldrop[t] >= 1
        /\ pc[t] = "release" /\ ret[t].op = "drop_event_pump"
             => calls[t] = << QuitEv >> /\ ~IS_EVENT_PUMP_ALIVE /\ sdldrop[t] >= 1
        /\ pc[t] = "sdl_quit" /\ ret[t].op = "drop_event_pump"
             => calls[t] = << QuitEv >> /\ ~IS_EVENT_PUMP_ALIVE
        /\ pc[t] = "idle" /\ ret[t].op = "drop_event_pump"
             => /\ calls[t] \in { << QuitEv >>, << QuitEv, Quit >> }
                /\ ~IS_EVENT_PUMP_ALIVE

\* The EventPump held the last reference: its drop quit the events subsystem
\* and then shut the library down.
C12_Witness ==
    /\ pc[MainThread] = "idle"
    /\ ret[MainThread].op = "drop_event_pump"
    /\ calls[MainThread] = << Call("SDL_QuitSubSystem", "SDL_INIT_EVENTS"),
                              Call("SDL_Quit", NoFlag) >>
    /\ subUp["SDL_INIT_EVENTS"] = 0

\* C13: set_error(text) returns the NulError and leaves the stored text as it
\* was when text holds the byte 0; for every other text it returns Ok and the
\* get_error() that follows it on the same thread returns that very text.
C13_SetErrorRoundTrip ==
    \A t \in Threads :
        LET cur == shim[t].cur
            prev == shim[t].prev
        IN /\ cur.op = "set_error"
                => (cur.res = "Ok" <=> \A i \in 1 .. Len(cur.arg) : cur.arg[i] # NUL)
           /\ cur.op = "set_error" /\ cur.res = "NulError" /\ prev.op = "get_error"
                => errText[t] = prev.res
           /\ cur.op = "get_error" /\ prev.op = "set_error" /\ prev.res = "Ok"
                => cur.res = prev.arg

\* C14: clear_error() returns without an error and leaves the empty text,
\* whatever was stored; the get_error() that follows it on the same thread
\* returns the empty string.
C14_ClearThenEmpty ==
    \A t \in Threads :
        LET cur == shim[t].cur
            prev == shim[t].prev
        IN /\ cur.op = "clear_error" => cur.res = "Ok" /\ errText[t] = << >>
           /\ cur.op = "get_error" /\ prev.op = "clear_error" => cur.res = << >>

\* clear_error() has run on a thread whose stored text was "a".
C14_Witness ==
    /\ shim[MainThread].prev = ShimOp("set_error", << "a" >>, "Ok")
    /\ shim[MainThread].cur = ShimOp("clear_error", << >>, "Ok")
    /\ errText[MainThread] = << >>

\* C16: across threads the foreign SDL_Init and SDL_Quit alternate, starting
\* with SDL_Init: the successful inits not yet matched by a quit are 0 or 1;
\* and while a thread holds a guard or a handle derived from it the library
\* is initialized: the last of the two calls was an SDL_Init.
C16_InitQuitSerialized ==
    /\ sdlUp \in { 0, 1 }
    /\ \A t \in Threads : LiveRefs(t) >= 1 => sdlUp = 1

\* C17: when the last reference to a chain has been released the flag is
\* false and the library is shut down; the init() that follows is not refused,
\* makes a new SDL_Init call and, when that succeeds, returns a fresh guard:
\* one Sdl, strong count 1, no SDL_Quit issued for it.  Every chain has seen
\* exactly one SDL_Init, and exactly one SDL_Quit once it is gone, however
\* many chains came before it.
C17_ReinitAfterTeardown ==
    /\ [](\A t \in Threads :
            /\ sdlUp \in { 0, 1 }
            /\ (\A u \in Threads : pc[u] = "idle" /\ sdldrop[u] = 0)
                 => ~IS_SDL_CONTEXT_ALIVE /\ sdlUp = 0
            /\ pc[t] = "idle" /\ sdldrop[t] = 0 /\ made[t] => quits[t] = 1
            /\ sdldrop[t] >= 1 => sdlUp = 1 /\ quits[t] = 0)
    /\ [][\A t \in Threads :
            /\ InitCall(t) /\ sdldrop[t] = 0
                 => pc'[t] = "new_init" /\ IS_SDL_CONTEXT_ALIVE'
            /\ pc[t] = "new_init" /\ ret'[t] = Ret("init", "Ok")
                 => /\ calls'[t] = << Call("SDL_Init", NoFlag) >>
                    /\ sdlUp' = sdlUp + 1
                    /\ sdl'[t] = 1 /\ sdldrop'[t] = 1 /\ quits'[t] = 0]_vars

\* A second init() after a complete cycle: the first chain was made and shut
\* down, and the new call has passed the flag and is about to call SDL_Init.
C17_Witness ==
    /\ pc[MainThread] = "new_init"
    /\ made[MainThread]
    /\ quits[MainThread] = 1
    /\ sdldrop[MainThread] = 0
    /\ sdlUp = 0

\* t is inside the life of its chain: the flag is set, the SDL_Init of the
\* chain has succeeded and its SDL_Quit has not been called.
InsideContext(t) ==
    /\ IS_SDL_CONTEXT_ALIVE
    /\ made[t] /\ quits[t] = 0
    /\ sdldrop[t] >= 1
    /\ sdlUp = 1

\* C18: every SDL_InitSubSystem and SDL_QuitSubSystem call (subsystem
\* constructor, SubsystemDrop::drop, EventPump::new, EventPump::drop) is
\* made while IS_SDL_CONTEXT_ALIVE is true, after the SDL_Init of the chain
\* of the caller and before its SDL_Quit; no trace of an operation shows a
\* subsystem quit after SDL_Quit.
C18_SubsystemCallsInsideContext ==
    /\ [](\A t \in Threads :
            /\ pc[t] \in { "sub_quit", "pump_init", "pumpdrop_quit" }
                 => InsideContext(t)
            /\ \A i, j \in 1 .. Len(calls[t]) :
                 i < j /\ calls[t][i].fn = "SDL_Quit"
                     => calls[t][j].fn # "SDL_QuitSubSystem")
    /\ [][\A t \in Threads :
            pc[t] = "idle" /\ ret'[t].op = "subsystem" /\ calls'[t] # << >>
                => InsideContext(t)]_vars

\* The drop of the last handle of a SubsystemDrop that held the last reference
\* to the chain: its quit, then SDL_Quit.
C18_Witness ==
    /\ pc[MainThread] = "idle"
    /\ ret[MainThread].op = "drop_subsystem"
    /\ calls[MainThread] = << Call("SDL_QuitSubSystem", "SDL_INIT_TIMER"),
                              Call("SDL_Quit", NoFlag) >>

\* C19: in single-threaded use no assertion of a destructor fails:
\* IS_SDL_CONTEXT_ALIVE is true when the last reference to the chain goes, and
\* IS_EVENT_PUMP_ALIVE is true when an EventPump is dropped.
C19_NoAssertFails ==
    /\ [](\A t \in Threads : pc[t] # "panicked")
    /\ [][\A t \in Threads :
            /\ sdldrop[t] >= 1 /\ sdldrop'[t] = 0 => IS_SDL_CONTEXT_ALIVE
            /\ pump'[t] < pump[t] => IS_EVENT_PUMP_ALIVE]_vars

\* Both destructors have run to their end: an EventPump was dropped, and with
\* it the last reference to the chain.
C19_Witness ==
    /\ pc[MainThread] = "idle"
    /\ ret[MainThread].op = "drop_event_pump"
    /\ Len(calls[MainThread]) = 2
    /\ quits[MainThread] = 1
    /\ ~IS_SDL_CONTEXT_ALIVE
    /\ ~IS_EVENT_PUMP_ALIVE

\* The EventPump values held by the threads.
LivePumps == { p \in Threads \X (1 .. MaxRefs) : p[2] <= pump[p[1]] }

\* The activations of flag f that are owed a quit: the SubsystemDrop objects
\* not yet quit, the EventPumps, and the EventPump being made or dropped
\* between its foreign call and its count.
Activations(f) ==
    Cardinality({ s \in Slots : subs[s].flag = f /\ subs[s].quits = 0 })
    + IF f = "SDL_INIT_EVENTS"
      THEN Cardinality(LivePumps)
           + Cardinality({ t \in Threads : pc[t] \in { "pump_set", "pumpdrop_quit" } })
      ELSE 0

\* C20: for every flag the successful SDL_InitSubSystem calls minus the
\* SDL_QuitSubSystem calls is never negative and equals the activations still
\* owed a quit; between operations that is the number of SubsystemDrop objects
\* of the flag with a live handle, plus, for the events flag, the EventPumps.
C20_SubsystemBalance ==
    \A f \in Flags :
        /\ subUp[f] >= 0
        /\ subUp[f] = Activations(f)
        /\ Quiescent =>
             subUp[f] = Cardinality({ s \in Slots :
                                        subs[s].flag = f /\ subs[s].handles >= 1 })
                        + IF f = "SDL_INIT_EVENTS" THEN Cardinality(LivePumps) ELSE 0

\* Two separately made events handles with a clone of one of them, and an
\* EventPump: three activations of the events flag, not four.
C20_Witness ==
    /\ Quiescent
    /\ pump[MainThread] = 1
    /\ \A s \in Slots : subs[s].flag = "SDL_INIT_EVENTS" /\ subs[s].handles >= 1
    /\ \E s \in Slots : subs[s].handles = 2
    /\ subUp["SDL_INIT_EVENTS"] = MaxSubs + 1

=============================================================================
